---- MODULE Spec2Model ----
(***************************************************************************)
(* Model of streamlit_vin_decoder.py: the Streamlit script main() and the  *)
(* request handler get_vin().  Characters are Unicode code points, strings *)
(* are sequences of code points, so that strip(), upper(), capitalize()    *)
(* and the regular expression are computed as Python computes them.        *)
(***************************************************************************)
EXTENDS Integers, Sequences, FiniteSets, TLC

VARIABLES typed, name, phase, clicked, vin, getVinCalls, lookupCalls,
          status, col1, col2, hello, mainError, outcome, prev

vars == <<typed, name, phase, clicked, vin, getVinCalls, lookupCalls,
          status, col1, col2, hello, mainError, outcome, prev>>

(* ---------------------------- bounds ----------------------------------- *)

\* at most this many characters other than the digit "1" in the VIN field
MaxSpecial == 2
\* they are typed within this many positions of either end of the field
MaxEdge == 2

(* ------------------------ program constants ---------------------------- *)

\* len(vin) != 17
VinLen == 17
\* {17} in the regular expression
ReCount == 17
\* st.text_input("Enter VIN:", max_chars=17)
MaxChars == 17

(* ------------------------ characters and strings ----------------------- *)

\* the digit "1", the filler of the VIN field
Filler == {49}

\* the other keys of the VIN field: space, "-", "Q", "a", "i", sharp s
KeyChars == {32, 45, 81, 97, 105, 223}

\* the names typed in the name field: "", "al", "AL"
Names == {<<>>, <<97, 108>>, <<65, 76>>}

\* str.isspace() on code points up to 255
Whitespace == {9, 10, 11, 12, 13, 28, 29, 30, 31, 32, 133, 160}

RECURSIVE LStrip(_)
LStrip(s) ==
    IF s = <<>> THEN <<>>
    ELSE IF Head(s) \in Whitespace THEN LStrip(Tail(s)) ELSE s

RECURSIVE RStrip(_)
RStrip(s) ==
    IF s = <<>> THEN <<>>
    ELSE IF s[Len(s)] \in Whitespace THEN RStrip(SubSeq(s, 1, Len(s) - 1))
         ELSE s

\* str.strip(): removes leading and trailing whitespace, keeps inner
Strip(s) == RStrip(LStrip(s))

\* the upper-case mapping of one code point (code points up to 255);
\* the sharp s (223) maps to "SS", y-diaeresis (255) and micro (181)
\* leave Latin-1
UpperChar(c) ==
    IF c \in 97..122 THEN <<c - 32>>
    ELSE IF c = 223 THEN <<83, 83>>
    ELSE IF c \in (224..254) \ {247} THEN <<c - 32>>
    ELSE IF c = 255 THEN <<376>>
    ELSE IF c = 181 THEN <<924>>
    ELSE <<c>>

RECURSIVE Upper(_)
\* str.upper()
Upper(s) == IF s = <<>> THEN <<>> ELSE UpperChar(Head(s)) \o Upper(Tail(s))

LowerChar(c) ==
    IF c \in 65..90 THEN c + 32
    ELSE IF c \in (192..222) \ {215} THEN c + 32
    ELSE c

\* str.capitalize(): first character upper-cased, the rest lower-cased
Capitalize(s) ==
    IF s = <<>> THEN <<>>
    ELSE UpperChar(s[1]) \o [i \in 1..(Len(s) - 1) |-> LowerChar(s[i + 1])]

\* the class with the range P-Z in place of P and R-Z: it lets Q through
InClassWithQ(c) ==
    \/ c \in 65..72
    \/ c \in 74..78
    \/ c \in 80..90
    \/ c \in 48..57

\* the class [0-9]: it drops the letters
InClassDigits(c) == c \in 48..57

\* the character class [A-HJ-NPR-Z0-9]
InClass(c) ==
    \/ c \in 65..72
    \/ c \in 74..78
    \/ c = 80
    \/ c \in 82..90
    \/ c \in 48..57

\* re.match(r'^[A-HJ-NPR-Z0-9]{17}$', s): $ also matches before one
\* trailing newline
ReMatch(s) ==
    /\ \/ Len(s) = ReCount
       \/ Len(s) = ReCount + 1 /\ s[ReCount + 1] = 10
    /\ \A i \in 1..ReCount : InClass(s[i])

(* ------------------------- values and messages ------------------------- *)

\* a field of the lookup's answer: Python None or a str
None == [present |-> FALSE, text |-> ""]
Str(t) == [present |-> TRUE, text |-> t]

\* bool(v) of a field: None and "" are falsy
Truthy(v) == v.present /\ v.text # ""

\* what nhtsa_api_call.get_vehicle_info(vin) can return as year, make, model
Years == {None, Str(""), Str("2003")}
Makes == {None, Str(""), Str("HONDA")}
Models == {None, Str(""), Str("Accord")}

\* str(e) of the exceptions nhtsa_api_call.get_vehicle_info(vin) can raise
Exceptions == {"", "Connection timed out"}

MsgLength == "VIN must be exactly 17 characters long."
MsgAlphabet == "VIN must be alpha-numeric and cannot include letters I, O, Q."
MsgDecoding == "Decoding VIN..."
MsgIncomplete == "Incomplete vehicle data returned. {username}, please verify the VIN and try again."
MsgSuccess == "VIN decoded successfully!"
MsgException == "An error occurred while decoding the VIN: {e}"
MsgEmptyVin == "Please enter a VIN before fetching the vehicle information, {name}."

\* an element of the page: its kind, its text and the values formatted in
Element(kind, msg, user, err) ==
    [kind |-> kind, msg |-> msg, user |-> user, err |-> err]

\* st.empty(): the status area with nothing in it
Empty == Element("empty", "", <<>>, "")

\* a line written by st.write in the second column
Line(label, text, user) == [label |-> label, text |-> text, user |-> user]

NoOutcome ==
    [kind |-> "none", year |-> None, make |-> None, model |-> None, err |-> ""]

(* ------------------------------ get_vin -------------------------------- *)

\* len(vin) < 17: it lets a longer VIN through
BadLengthShort(v) == Len(v) < VinLen

\* len(vin) != 17
BadLength(v) == Len(v) # VinLen

\* get_vin with the two checks in the other order: the alphabet error hides
\* the length error
GetVinStartAlphabetFirst(v, username) ==
    IF ~ReMatch(v)
    THEN [status |-> Element("error", MsgAlphabet, <<>>, ""),
          lookupCalls |-> <<>>, phase |-> "idle"]
    ELSE IF BadLength(v)
    THEN [status |-> Element("error", MsgLength, <<>>, ""),
          lookupCalls |-> <<>>, phase |-> "idle"]
    ELSE [status |-> Element("info", MsgDecoding, <<>>, ""),
          lookupCalls |-> <<v>>, phase |-> "waiting"]

\* get_vin(vin, username) up to the call of the lookup: the status area is
\* created, the format is validated, and either the function returns or
\* the lookup is called with vin
GetVinStart(v, username) ==
    IF BadLength(v)
    THEN [status |-> Element("error", MsgLength, <<>>, ""),
          lookupCalls |-> <<>>, phase |-> "idle"]
    ELSE IF ~ReMatch(v)
    THEN [status |-> Element("error", MsgAlphabet, <<>>, ""),
          lookupCalls |-> <<>>, phase |-> "idle"]
    ELSE [status |-> Element("info", MsgDecoding, <<>>, ""),
          lookupCalls |-> <<v>>, phase |-> "waiting"]

\* any([v is None for v in [...]]) alone: an empty string counts as data
IncompleteNoneOnly(year, make, model) ==
    ~year.present \/ ~make.present \/ ~model.present

\* not all([year, make, model]) or any([v is None for v in [...]])
Incomplete(year, make, model) ==
    \/ ~(Truthy(year) /\ Truthy(make) /\ Truthy(model))
    \/ (~year.present \/ ~make.present \/ ~model.present)

\* get_vin after the lookup returned (year, make, model): the warning, or
\* the success status with the image and the five lines
GetVinReturned(username, year, make, model) ==
    IF Incomplete(year, make, model)
    THEN [status |-> Element("warning", MsgIncomplete,
                             Capitalize(username), ""),
          col1 |-> <<>>, col2 |-> <<>>, phase |-> "idle"]
    ELSE [status |-> Element("success", MsgSuccess, <<>>, ""),
          col1 |-> <<"car_image.png">>,
          col2 |-> << Line("Below are the vehicle details", "",
                           Capitalize(username)),
                      Line("Vehicle Information", "", <<>>),
                      Line("Make", make.text, <<>>),
                      Line("Model", model.text, <<>>),
                      Line("Model Year", year.text, <<>>) >>,
          phase |-> "idle"]

\* a handler that calls the lookup once more before it gives up
GetVinRaisedRetry(e, calls) ==
    IF Len(calls) < 2
    THEN [status |-> Element("info", MsgDecoding, <<>>, ""),
          lookupCalls |-> Append(calls, calls[1]), phase |-> "waiting"]
    ELSE [status |-> Element("error", MsgException, <<>>, e),
          lookupCalls |-> calls, phase |-> "idle"]

\* no handler: the exception leaves get_vin and main
GetVinRaisedCrash(e, calls) ==
    [status |-> Element("info", MsgDecoding, <<>>, ""),
     lookupCalls |-> calls, phase |-> "crashed"]

\* get_vin after the lookup raised an exception whose str() is e: the
\* handler shows the error and get_vin returns; calls is the list of the
\* lookups made so far
GetVinRaised(e, calls) ==
    [status |-> Element("error", MsgException, <<>>, e),
     lookupCalls |-> calls, phase |-> "idle"]

(* -------------------------------- main --------------------------------- *)

\* st.text_input("Enter VIN:", max_chars=17).strip().upper()
Normalize(t) == Upper(Strip(t))

\* no test of vin: get_vin is called with the empty string too
VinGivenAlways(v) == TRUE

\* if vin:
VinGiven(v) == v # <<>>

\* the page main() renders when the button is not clicked, or before
\* get_vin is called
Blank(n) ==
    [hello |-> IF n # <<>> THEN Capitalize(n) ELSE <<>>,
     mainError |-> Empty, getVinCalls |-> <<>>, lookupCalls |-> <<>>,
     status |-> Empty, phase |-> "idle"]

\* main() with "if vin and name:": without a name the VIN is not decoded
MainRunNeedsName(t, n, b) ==
    LET v == Normalize(t) IN
    IF b
    THEN IF VinGiven(v) /\ n # <<>>
         THEN LET g == GetVinStart(v, n) IN
              [Blank(n) EXCEPT
                  !.getVinCalls = <<[vin |-> v, username |-> n]>>,
                  !.lookupCalls = g.lookupCalls,
                  !.status = g.status,
                  !.phase = g.phase]
         ELSE [Blank(n) EXCEPT
                  !.mainError = Element("error", MsgEmptyVin,
                                        Capitalize(n), "")]
    ELSE Blank(n)

\* one run of the script main() with the widget values t (VIN field),
\* n (name field) and b (the value of st.button)
MainRun(t, n, b) ==
    LET v == Normalize(t) IN
    IF b
    THEN IF VinGiven(v)
         THEN LET g == GetVinStart(v, n) IN
              [Blank(n) EXCEPT
                  !.getVinCalls = <<[vin |-> v, username |-> n]>>,
                  !.lookupCalls = g.lookupCalls,
                  !.status = g.status,
                  !.phase = g.phase]
         ELSE [Blank(n) EXCEPT
                  !.mainError = Element("error", MsgEmptyVin,
                                        Capitalize(n), "")]
    ELSE Blank(n)

(* ------------------------------- state --------------------------------- *)

Init ==
    /\ typed = <<>>
    /\ name = <<>>
    /\ phase = "idle"
    /\ clicked = FALSE
    /\ vin = <<>>
    /\ getVinCalls = <<>>
    /\ lookupCalls = <<>>
    /\ status = Empty
    /\ col1 = <<>>
    /\ col2 = <<>>
    /\ hello = <<>>
    /\ mainError = Empty
    /\ outcome = NoOutcome
    /\ prev = "none"

\* the kind of the last message of the page
FinalKind == IF mainError.kind # "empty" THEN mainError.kind ELSE status.kind

\* the script reruns from the top with the widget values t, n and b
Main(t, n, b) ==
    LET r == MainRun(t, n, b) IN
    /\ typed' = t
    /\ name' = n
    /\ clicked' = b
    /\ vin' = Normalize(t)
    /\ hello' = r.hello
    /\ mainError' = r.mainError
    /\ getVinCalls' = r.getVinCalls
    /\ lookupCalls' = r.lookupCalls
    /\ status' = r.status
    /\ phase' = r.phase
    /\ col1' = <<>>
    /\ col2' = <<>>
    /\ outcome' = NoOutcome
    /\ prev' = IF clicked THEN FinalKind ELSE prev

\* the number of characters of s that are not the filler
Specials(s) == Cardinality({i \in 1..Len(s) : s[i] \notin Filler})

\* the positions of the field where another key than the filler is typed
Edge(p) == p <= MaxEdge \/ p > MaxChars - MaxEdge

\* the user types one more character into the VIN field; the script reruns
EditVin(c) ==
    /\ phase = "idle"
    /\ Len(typed) < MaxChars
    /\ c \notin Filler => Edge(Len(typed) + 1)
    /\ Specials(Append(typed, c)) <= MaxSpecial
    /\ Main(Append(typed, c), name, FALSE)

\* the user empties the VIN field; the script reruns
ClearVin ==
    /\ phase = "idle"
    /\ typed # <<>>
    /\ Main(<<>>, name, FALSE)

\* the user changes the name field; the script reruns
EditName(n) ==
    /\ phase = "idle"
    /\ n # name
    /\ Main(typed, n, FALSE)

\* the user clicks "Decode VIN"; the script reruns with the button set
ClickDecode ==
    /\ phase = "idle"
    /\ Main(typed, name, TRUE)

\* nhtsa_api_call.get_vehicle_info(vin) returns (year, make, model)
LookupReturns(year, make, model) ==
    /\ phase = "waiting"
    /\ LET r == GetVinReturned(getVinCalls[1].username, year, make, model) IN
       /\ status' = r.status
       /\ col1' = r.col1
       /\ col2' = r.col2
       /\ phase' = r.phase
    /\ outcome' = [kind |-> "returned", year |-> year, make |-> make,
                   model |-> model, err |-> ""]
    /\ UNCHANGED <<typed, name, clicked, vin, getVinCalls, lookupCalls,
                   hello, mainError, prev>>

\* nhtsa_api_call.get_vehicle_info(vin) raises an exception, str() of it e
LookupRaises(e) ==
    /\ phase = "waiting"
    /\ LET r == GetVinRaised(e, lookupCalls) IN
       /\ status' = r.status
       /\ lookupCalls' = r.lookupCalls
       /\ phase' = r.phase
    /\ outcome' = [kind |-> "raised", year |-> None, make |-> None,
                   model |-> None, err |-> e]
    /\ UNCHANGED <<typed, name, clicked, vin, getVinCalls, col1, col2,
                   hello, mainError, prev>>

Next ==
    \/ \E c \in Filler \cup KeyChars : EditVin(c)
    \/ ClearVin
    \/ \E n \in Names : EditName(n)
    \/ ClickDecode
    \/ \E y \in Years, mk \in Makes, mo \in Models : LookupReturns(y, mk, mo)
    \/ \E e \in Exceptions : LookupRaises(e)

Spec == Init /\ [][Next]_vars

\* the lookup is one blocking call of a synchronous function: it returns
\* or it raises
LookupResponds ==
    \/ \E y \in Years, mk \in Makes, mo \in Models : LookupReturns(y, mk, mo)
    \/ \E e \in Exceptions : LookupRaises(e)

LiveSpec == Init /\ [][Next]_vars /\ WF_vars(LookupResponds)

(* =========================== properties ================================ *)

\* the alphabet A-H, J-N, P, R-Z, 0-9: letters and digits without I, O, Q
VinAlphabet == ((48..57) \cup (65..90)) \ {73, 79, 81}

\* get_vin was called in the current run of the script
Requested == clicked /\ getVinCalls # <<>>

\* the VIN get_vin was called with
Arg == getVinCalls[1].vin

\* year, make and model of the lookup's answer are present and non-empty
AllPresent ==
    /\ outcome.kind = "returned"
    /\ \A f \in {outcome.year, outcome.make, outcome.model} :
          f.present /\ f.text # ""

\* the second column shows the line label with the value text
Shows(label, text) ==
    \E i \in DOMAIN col2 : col2[i].label = label /\ col2[i].text = text

\* the text of the last message of the page
FinalMsg == IF mainError.kind # "empty" THEN mainError.msg ELSE status.msg

\* C1: a VIN of length other than 17 passed to get_vin is rejected with the
\* length error, get_vin returns and the lookup is not invoked
C1_WrongLengthRejected ==
    (Requested /\ Len(Arg) # VinLen) =>
        /\ status = Element("error", MsgLength, <<>>, "")
        /\ phase = "idle"
        /\ lookupCalls = <<>>

C1_Witness ==
    /\ Requested
    /\ Len(Arg) > VinLen
    /\ status.msg = MsgLength

\* C2: a 17-character VIN with a character outside the alphabet is rejected
\* with the alphabet error and the lookup is not invoked
C2_BadAlphabetRejected ==
    (/\ Requested
     /\ Len(Arg) = VinLen
     /\ \E i \in 1..Len(Arg) : Arg[i] \notin VinAlphabet) =>
        /\ status = Element("error", MsgAlphabet, <<>>, "")
        /\ phase = "idle"
        /\ lookupCalls = <<>>

C2_Witness ==
    /\ Requested
    /\ Len(Arg) = VinLen
    /\ \E i \in 1..Len(Arg) : Arg[i] = 81
    /\ status.msg = MsgAlphabet

\* C3: a 17-character VIN over the alphabet is accepted and the lookup is
\* invoked exactly once, with that VIN
C3_ValidLookedUpOnce ==
    (/\ Requested
     /\ Len(Arg) = VinLen
     /\ \A i \in 1..Len(Arg) : Arg[i] \in VinAlphabet) =>
        /\ lookupCalls = <<Arg>>
        /\ status.msg \notin {MsgLength, MsgAlphabet}

C3_Witness ==
    /\ Requested
    /\ phase = "idle"
    /\ outcome.kind = "returned"
    /\ \E i \in 1..Len(Arg) : Arg[i] = 65
    /\ lookupCalls = <<Arg>>

\* C4: after the lookup returned, three non-empty fields give the success
\* status with make, model and model year shown; a missing field gives the
\* incomplete-data warning with no field and no image
C4_CompleteOrWarning ==
    outcome.kind = "returned" =>
        IF AllPresent
        THEN /\ status = Element("success", MsgSuccess, <<>>, "")
             /\ Shows("Make", outcome.make.text)
             /\ Shows("Model", outcome.model.text)
             /\ Shows("Model Year", outcome.year.text)
        ELSE /\ status.kind = "warning"
             /\ status.msg = MsgIncomplete
             /\ col1 = <<>>
             /\ col2 = <<>>

C4_Witness ==
    /\ outcome.kind = "returned"
    /\ outcome.make = Str("")
    /\ Truthy(outcome.year) /\ Truthy(outcome.model)
    /\ status.kind = "warning"

\* C5: when the lookup raises, the request ends with the error status that
\* carries the failure message, no field is rendered and the lookup has
\* been invoked once
C5_FailureReportedNoRetry ==
    outcome.kind = "raised" =>
        /\ status = Element("error", MsgException, <<>>, outcome.err)
        /\ col1 = <<>>
        /\ col2 = <<>>
        /\ lookupCalls = <<Arg>>
        /\ phase = "idle"

C5_Witness ==
    /\ outcome.kind = "raised"
    /\ status.err = "Connection timed out"
    /\ Len(lookupCalls) = 1

\* the final message the request must end in, from the normalized VIN and
\* the lookup's outcome alone
ExpectedMsg ==
    IF vin = <<>> THEN MsgEmptyVin
    ELSE IF Len(vin) # VinLen THEN MsgLength
    ELSE IF \E i \in 1..Len(vin) : vin[i] \notin VinAlphabet THEN MsgAlphabet
    ELSE IF outcome.kind = "raised" THEN MsgException
    ELSE IF AllPresent THEN MsgSuccess
    ELSE MsgIncomplete

\* C6: every click ends in a rendered final message with the page idle again
\* (the state in which the next click is taken), nothing terminates the
\* process, and the message depends on the current request alone
C6_EveryClickEnds ==
    /\ clicked ~> (clicked /\ phase = "idle"
                     /\ FinalKind \in {"error", "warning", "success"})
    /\ [](phase \in {"idle", "waiting"})
    /\ []((clicked /\ phase = "idle") => FinalMsg = ExpectedMsg)

C6_Witness ==
    /\ clicked
    /\ phase = "idle"
    /\ prev = "success"
    /\ status.msg = MsgException

\* the lines of the second column without the greeting's name
Fields(c) == [i \in DOMAIN c |-> <<c[i].label, c[i].text>>]

\* C7: with the same VIN input and the same lookup response, any other name
\* gives the same validation decision, the same lookup invocations, the same
\* kind of final status and the same make, model and year
C7_NameHasNoRole ==
    \A n \in Names :
        /\ outcome.kind = "none" =>
              LET r == MainRun(typed, n, clicked) IN
              /\ r.status.kind = status.kind
              /\ r.status.msg = status.msg
              /\ r.mainError.kind = mainError.kind
              /\ r.lookupCalls = lookupCalls
              /\ Len(r.getVinCalls) = Len(getVinCalls)
              /\ r.phase = phase
        /\ outcome.kind = "returned" =>
              LET r == GetVinReturned(n, outcome.year, outcome.make,
                                      outcome.model) IN
              /\ r.status.kind = status.kind
              /\ r.status.msg = status.msg
              /\ r.col1 = col1
              /\ Fields(r.col2) = Fields(col2)
              /\ r.phase = phase

C7_Witness ==
    /\ name = <<>>
    /\ outcome.kind = "returned"
    /\ status.kind = "warning"
    /\ prev = "success"

\* C8: a click with a VIN field empty after trimming shows the "Please enter
\* a VIN" error without calling get_vin or the lookup; without a click
\* neither is called
C8_EmptyVinOrNoClick ==
    /\ (clicked /\ \A i \in 1..Len(typed) : typed[i] \in Whitespace) =>
          /\ mainError = Element("error", MsgEmptyVin, Capitalize(name), "")
          /\ getVinCalls = <<>>
          /\ lookupCalls = <<>>
    /\ ~clicked =>
          /\ getVinCalls = <<>>
          /\ lookupCalls = <<>>
          /\ mainError = Empty

C8_Witness ==
    /\ clicked
    /\ typed # <<>>
    /\ \A i \in 1..Len(typed) : typed[i] \in Whitespace
    /\ mainError.msg = MsgEmptyVin

\* a lower-case letter is folded to its capital, anything else is kept
Fold(c) == IF c \in 97..122 THEN c - 32 ELSE c

\* C9: validation and the lookup see the stripped, upper-cased value; a
\* typed VIN that differs from an acceptable one by letter case only is
\* looked up in upper case; a typed i, o or q is rejected; a typed value
\* that is 17 long only because of surrounding whitespace gets the length
\* error
C9_NormalizedBeforeValidation ==
    clicked =>
        /\ (/\ Len(typed) = VinLen
            /\ \A i \in 1..Len(typed) : Fold(typed[i]) \in VinAlphabet) =>
               lookupCalls = <<[i \in 1..Len(typed) |-> Fold(typed[i])]>>
        /\ (\E i \in 1..Len(typed) : typed[i] \in {105, 111, 113}) =>
               /\ status.kind = "error"
               /\ lookupCalls = <<>>
        /\ (/\ Len(typed) = VinLen
            /\ typed[1] \in Whitespace \/ typed[Len(typed)] \in Whitespace
            /\ \E i \in 1..Len(typed) : typed[i] \notin Whitespace) =>
               /\ status = Element("error", MsgLength, <<>>, "")
               /\ lookupCalls = <<>>
        /\ Requested =>
               /\ Arg = vin
               /\ Arg[1] \notin Whitespace
               /\ Arg[Len(Arg)] \notin Whitespace
               /\ \A i \in 1..Len(Arg) : Arg[i] \notin 97..122
               /\ \A i \in 1..Len(lookupCalls) : lookupCalls[i] = Arg

\* C10: when get_vin has returned, the status area holds one final message:
\* the length error iff the length is not 17, the alphabet error iff the
\* length is 17 and a character is disallowed, otherwise the service error
\* iff the lookup raised, the warning iff it returned with a missing field
\* and the success iff it returned three non-empty fields; never the
\* "Decoding VIN..." info; the fields are rendered iff the status is success
C10_OneFinalMessage ==
    (Requested /\ phase = "idle") =>
        LET badLen == Len(Arg) # VinLen
            badChar == \E i \in 1..Len(Arg) : Arg[i] \notin VinAlphabet
            valid == ~badLen /\ ~badChar
        IN
        /\ status.msg = MsgLength <=> badLen
        /\ status.msg = MsgAlphabet <=> (~badLen /\ badChar)
        /\ status.msg = MsgException <=> (valid /\ outcome.kind = "raised")
        /\ status.msg = MsgIncomplete <=>
              (valid /\ outcome.kind = "returned" /\ ~AllPresent)
        /\ status.msg = MsgSuccess <=> (valid /\ AllPresent)
        /\ status.msg \in {MsgLength, MsgAlphabet, MsgException,
                           MsgIncomplete, MsgSuccess}
        /\ status.kind # "info"
        /\ (col2 # <<>>) <=> (status.kind = "success")
        /\ (col1 # <<>>) <=> (status.kind = "success")

C10_Witness ==
    /\ Requested
    /\ phase = "idle"
    /\ Len(Arg) # VinLen
    /\ \E i \in 1..Len(Arg) : Arg[i] \in {73, 81}
    /\ status.msg = MsgLength

====
